---------------------------- MODULE Spec2Model ----------------------------
(***************************************************************************)
(* A model of task01.py: the in-memory address book (Record, AddressBook), *)
(* the command loop of main() and the upcoming-birthday computation        *)
(* AddressBook.get_birthdays_per_week.                                     *)
(*                                                                         *)
(* Text (phone numbers, birthday values) is a sequence of one-character    *)
(* strings, so that validation and date parsing work on characters as the  *)
(* code does.  A date is a record [year, month, day] as datetime.date is;  *)
(* date arithmetic goes through the proleptic Gregorian ordinal.           *)
(***************************************************************************)
EXTENDS Integers, Sequences, FiniteSets

VARIABLES
    book,   \* AddressBook.data: the records in insertion order (a dict keyed by name)
    pc,     \* main(): "printed" (about to prompt), "input" (a line is read), "exited"
            \* (close/exit) or "crashed" (an exception escaped)
    cmd,    \* the command the loop executed last, with its inputs
    out,    \* what that command printed or raised, and the scheduler's call record
    rec,    \* a Record driven directly through its own methods
    recOut  \* the outcome of the last method called on rec

vars == <<book, pc, cmd, out, rec, recOut>>

-----------------------------------------------------------------------------
(* Bounds of the model *)

\* the most phone numbers one record holds
MaxPhones == 2
\* the number of consecutive days datetime.today() is drawn from
NumDays == 77

-----------------------------------------------------------------------------
(* Characters and text *)

DigitChars == <<"0", "1", "2", "3", "4", "5", "6", "7", "8", "9">>

IsDigitChar(c) == \E i \in 1..Len(DigitChars) : DigitChars[i] = c

DigitVal(c) == (CHOOSE i \in 1..Len(DigitChars) : DigitChars[i] = c) - 1

\* str.isdigit(): non-empty and every character a digit
IsDigit(s) == Len(s) > 0 /\ \A i \in 1..Len(s) : IsDigitChar(s[i])

RECURSIVE NumVal(_)
NumVal(s) == IF Len(s) = 0 THEN 0
             ELSE 10 * NumVal(SubSeq(s, 1, Len(s) - 1)) + DigitVal(s[Len(s)])

\* sep.join(items), each item and sep a sequence of pieces
RECURSIVE Join(_, _)
Join(items, sep) ==
    IF Len(items) = 0 THEN <<>>
    ELSE IF Len(items) = 1 THEN items[1]
    ELSE items[1] \o sep \o Join(Tail(items), sep)

-----------------------------------------------------------------------------
(* datetime.date *)

IsLeap(y) == y % 4 = 0 /\ (y % 100 # 0 \/ y % 400 = 0)

DaysInMonth(y, m) ==
    IF m = 2 THEN (IF IsLeap(y) THEN 29 ELSE 28)
    ELSE IF m \in {4, 6, 9, 11} THEN 30 ELSE 31

DaysBeforeYear(y) ==
    (y - 1) * 365 + ((y - 1) \div 4) - ((y - 1) \div 100) + ((y - 1) \div 400)

RECURSIVE DaysBeforeMonth(_, _)
DaysBeforeMonth(y, m) ==
    IF m = 1 THEN 0 ELSE DaysBeforeMonth(y, m - 1) + DaysInMonth(y, m - 1)

MkDate(y, m, d) == [year |-> y, month |-> m, day |-> d]

\* the date constructor's range check (MINYEAR = 1, MAXYEAR = 9999)
ValidYMD(y, m, d) ==
    /\ y >= 1 /\ y <= 9999
    /\ m >= 1 /\ m <= 12
    /\ d >= 1 /\ d <= DaysInMonth(y, m)

ToOrdinal(dt) == DaysBeforeYear(dt.year) + DaysBeforeMonth(dt.year, dt.month) + dt.day

FromOrdinal(n) ==
    LET y == CHOOSE yy \in (n \div 366)..((n \div 365) + 1) :
                 DaysBeforeYear(yy) < n /\ n <= DaysBeforeYear(yy + 1)
        r == n - DaysBeforeYear(y)
        m == CHOOSE mm \in 1..12 :
                 DaysBeforeMonth(y, mm) < r /\ r <= DaysBeforeMonth(y, mm) + DaysInMonth(y, mm)
    IN  MkDate(y, m, r - DaysBeforeMonth(y, m))

\* date.weekday(): Monday is 0, Sunday is 6
Weekday(dt) == (ToOrdinal(dt) + 6) % 7

\* date + timedelta(days = k)
AddDays(dt, k) == FromOrdinal(ToOrdinal(dt) + k)

\* (a - b).days
DiffDays(a, b) == ToOrdinal(a) - ToOrdinal(b)

DateLess(a, b) == ToOrdinal(a) < ToOrdinal(b)

\* date.replace(year = y): ValueError when the month and day do not exist in y
ReplaceYear(dt, y) ==
    IF ValidYMD(y, dt.month, dt.day)
    THEN [exc |-> "None", emsg |-> "", value |-> MkDate(y, dt.month, dt.day)]
    ELSE [exc |-> "ValueError", emsg |-> "day is out of range for month", value |-> dt]

DayNames == <<"Monday", "Tuesday", "Wednesday", "Thursday", "Friday", "Saturday", "Sunday">>

\* date.strftime("%A")
StrftimeA(dt) == DayNames[Weekday(dt) + 1]

\* datetime.strptime(s, "%d.%m.%Y"): the three fields between the dots must match
\*   %d  3[0-1]|[1-2]\d|0[1-9]|[1-9]| [1-9]      %m  1[0-2]|0[1-9]|[1-9]      %Y  \d\d\d\d
\* and form a date the date constructor accepts.
DotPositions(s) == {i \in 1..Len(s) : s[i] = "."}

MatchDay(f) ==
    \/ Len(f) = 1 /\ IsDigitChar(f[1]) /\ f[1] # "0"
    \/ /\ Len(f) = 2
       /\ IsDigitChar(f[2])
       /\ \/ f[1] = "3" /\ f[2] \in {"0", "1"}
          \/ f[1] \in {"1", "2"}
          \/ f[1] \in {"0", " "} /\ f[2] # "0"

MatchMonth(f) ==
    \/ Len(f) = 1 /\ IsDigitChar(f[1]) /\ f[1] # "0"
    \/ /\ Len(f) = 2
       /\ IsDigitChar(f[2])
       /\ \/ f[1] = "1" /\ f[2] \in {"0", "1", "2"}
          \/ f[1] = "0" /\ f[2] # "0"

MatchYear(f) == Len(f) = 4 /\ IsDigit(f)

FieldVal(f) == IF f[1] = " " THEN NumVal(Tail(f)) ELSE NumVal(f)

NoDate == MkDate(0, 0, 0)

Strptime(s) ==
    LET dots == DotPositions(s)
    IN  IF Cardinality(dots) # 2
        THEN [exc |-> "ValueError", value |-> NoDate]
        ELSE
          LET p1 == CHOOSE i \in dots : \A j \in dots : i <= j
              p2 == CHOOSE i \in dots : \A j \in dots : j <= i
              fd == SubSeq(s, 1, p1 - 1)
              fm == SubSeq(s, p1 + 1, p2 - 1)
              fy == SubSeq(s, p2 + 1, Len(s))
          IN  IF MatchDay(fd) /\ MatchMonth(fm) /\ MatchYear(fy)
                 /\ ValidYMD(FieldVal(fy), FieldVal(fm), FieldVal(fd))
              THEN [exc |-> "None",
                    value |-> MkDate(FieldVal(fy), FieldVal(fm), FieldVal(fd))]
              ELSE [exc |-> "ValueError", value |-> NoDate]

-----------------------------------------------------------------------------
(* Field, Phone, Birthday *)

Raise(kind, text, obj) == [exc |-> kind, emsg |-> text, self |-> obj]

Return(obj) == [exc |-> "None", emsg |-> "", self |-> obj]

\* Phone.validate
Phone_validate(value) == Len(value) = 10 /\ IsDigit(value)

\* Phone.__init__: the Phone object is its value
Phone_init(value) ==
    IF ~Phone_validate(value)
    THEN Raise("ValueError", "Invalid phone number format", value)
    ELSE Return(value)

\* Birthday.validate
Birthday_validate(value) == Strptime(value).exc = "None"

\* Record.birthday is None, or a Birthday object holding the text it was given
None == [isNone |-> TRUE, value |-> <<>>]

Birthday_init(value) ==
    IF ~Birthday_validate(value)
    THEN Raise("ValueError", "Invalid date format", None)
    ELSE Return([isNone |-> FALSE, value |-> value])

-----------------------------------------------------------------------------
(* Record *)

Record_init(name) == [name |-> name, phones |-> <<>>, birthday |-> None]

\* a slip: the number is appended before it is validated
Record_add_phone_unchecked(self, phone_number) ==
    LET p == Phone_init(phone_number)
    IN  IF p.exc # "None"
        THEN Raise(p.exc, p.emsg, [self EXCEPT !.phones = Append(@, phone_number)])
        ELSE Return([self EXCEPT !.phones = Append(@, p.self)])

Record_add_phone(self, phone_number) ==
    LET p == Phone_init(phone_number)
    IN  IF p.exc # "None" THEN Raise(p.exc, p.emsg, self)
        ELSE Return([self EXCEPT !.phones = Append(@, p.self)])

Record_remove_phone(self, phone_number) ==
    Return([self EXCEPT !.phones = SelectSeq(@, LAMBDA p : p # phone_number)])

\* Record.find_phone: the position of the first phone with this value, 0 for None
Record_find_phone(self, phone_number) ==
    IF \E i \in 1..Len(self.phones) : self.phones[i] = phone_number
    THEN CHOOSE i \in 1..Len(self.phones) :
             /\ self.phones[i] = phone_number
             /\ \A j \in 1..(i - 1) : self.phones[j] # phone_number
    ELSE 0

Record_edit_phone(self, old_number, new_number) ==
    LET i == Record_find_phone(self, old_number)
    IN  IF i = 0
        THEN Raise("AttributeError", "'NoneType' object has no attribute 'value'", self)
        ELSE Return([self EXCEPT !.phones[i] = new_number])

Record_add_birthday(self, birthday) ==
    IF ~self.birthday.isNone
    THEN Raise("ValueError", "Birthday already exists for this contact", self)
    ELSE LET b == Birthday_init(birthday)
         IN  IF b.exc # "None" THEN Raise(b.exc, b.emsg, self)
             ELSE Return([self EXCEPT !.birthday = b.self])

\* Record.__str__, as the pieces it concatenates
Record_str(self) ==
    <<"Contact name: ", self.name, ", phones: ">>
    \o Join(self.phones, <<"; ">>)
    \o (IF ~self.birthday.isNone THEN <<", Birthday: ">> \o self.birthday.value ELSE <<>>)

-----------------------------------------------------------------------------
(* AddressBook: data is the dict's records in insertion order *)

KeyIndex(data, name) ==
    IF \E i \in 1..Len(data) : data[i].name = name
    THEN CHOOSE i \in 1..Len(data) : data[i].name = name
    ELSE 0

\* AddressBook.add_record: self.data[record.name.value] = record; an existing key keeps its place
add_record(data, record) ==
    LET i == KeyIndex(data, record.name)
    IN  IF i = 0 THEN Append(data, record) ELSE [data EXCEPT ![i] = record]

\* AddressBook.find: the position of the record, 0 for None
find(data, name) == KeyIndex(data, name)

-----------------------------------------------------------------------------
(* AddressBook.get_birthdays_per_week *)

\* a slip: the name put at the head of its bucket
DictAppend_at_head(birthdays, weekday, name) ==
    IF \E i \in 1..Len(birthdays) : birthdays[i].key = weekday
    THEN LET i == CHOOSE j \in 1..Len(birthdays) : birthdays[j].key = weekday
         IN  [birthdays EXCEPT ![i].names = <<name>> \o @]
    ELSE Append(birthdays, [key |-> weekday, names |-> <<name>>])

\* birthdays[weekday].append(name) on the defaultdict(list): the keys keep the
\* order in which they were first used
DictAppend(birthdays, weekday, name) ==
    IF \E i \in 1..Len(birthdays) : birthdays[i].key = weekday
    THEN LET i == CHOOSE j \in 1..Len(birthdays) : birthdays[j].key = weekday
         IN  [birthdays EXCEPT ![i].names = Append(@, name)]
    ELSE Append(birthdays, [key |-> weekday, names |-> <<name>>])

\* a slip: the offset without "% 7", a Monday sent to the Monday after
NextMonday_without_mod(today1, today2) == AddDays(today1, 7 - Weekday(today2))

\* line 90: datetime.today() is read twice, first for the date (today1) and then
\* for the weekday (today2)
NextMonday(today1, today2) == AddDays(today1, (7 - Weekday(today2)) % 7)

\* a slip: the weekend is not moved to Monday
WeekdayBucket_no_remap(today, delta_days) == StrftimeA(AddDays(today, delta_days))

\* lines 105-109: the bucket of a birthday delta_days after today
WeekdayBucket(today, delta_days) ==
    LET weekday == StrftimeA(AddDays(today, delta_days))
    IN  IF weekday \in {"Saturday", "Sunday"} THEN "Monday" ELSE weekday

\* a slip: a weekend birthday entered under its own day and under Monday as well
Bucket_weekend_twice(delta_days, name, today, birthdays) ==
    IF delta_days < 7
    THEN IF StrftimeA(AddDays(today, delta_days)) \in {"Saturday", "Sunday"}
         THEN Return(DictAppend(DictAppend(birthdays, StrftimeA(AddDays(today, delta_days)),
                                           name), "Monday", name))
         ELSE Return(DictAppend(birthdays, WeekdayBucket(today, delta_days), name))
    ELSE Return(birthdays)

\* lines 103-109: the bucket, if any, of a birthday delta_days after today
Bucket(delta_days, name, today, birthdays) ==
    IF delta_days < 7
    THEN Return(DictAppend(birthdays, WeekdayBucket(today, delta_days), name))
    ELSE Return(birthdays)

\* line 101: the birthday moved to the year after today's
NextYear(next_year, name, today, birthdays) ==
    IF next_year.exc # "None" THEN Raise(next_year.exc, next_year.emsg, birthdays)
    ELSE Bucket(DiffDays(next_year.value, today), name, today, birthdays)

\* lines 98-103: the birthday in today's year, moved on a year when it is before today
ThisYear(this_year, name, today, birthdays) ==
    IF this_year.exc # "None" THEN Raise(this_year.exc, this_year.emsg, birthdays)
    ELSE IF DateLess(this_year.value, today)
    THEN NextYear(ReplaceYear(this_year.value, today.year + 1), name, today, birthdays)
    ELSE Bucket(DiffDays(this_year.value, today), name, today, birthdays)

\* line 98: the stored text parsed again
Parsed(parsed, name, today, birthdays) ==
    IF parsed.exc # "None"
    THEN Raise(parsed.exc, "time data does not match format '%d.%m.%Y'", birthdays)
    ELSE ThisYear(ReplaceYear(parsed.value, today.year), name, today, birthdays)

\* lines 95-109: the body of the loop for one record
LoopBody(record, today, birthdays) ==
    IF record.birthday.isNone
    THEN Raise("AttributeError", "'NoneType' object has no attribute 'value'", birthdays)
    ELSE IF Len(record.birthday.value) = 0 THEN Return(birthdays)
    ELSE Parsed(Strptime(record.birthday.value), record.name, today, birthdays)

\* the loop goes on to the next record unless the body raised
RECURSIVE Loop(_, _, _, _)
LoopStep(r, data, i, today) ==
    IF r.exc # "None" THEN r ELSE Loop(data, i + 1, today, r.self)

\* lines 94-109: for record in self.data.values(), from position i on
Loop(data, i, today, birthdays) ==
    IF i > Len(data) THEN Return(birthdays)
    ELSE LoopStep(LoopBody(data[i], today, birthdays), data, i, today)

NoCall == [called |-> FALSE, exc |-> "None", emsg |-> "", window_start |-> NoDate,
           value |-> <<>>]

\* line 111: the record of one call: what it raised or returned, and its window start
CallRecord(today, r) ==
    [called |-> TRUE, exc |-> r.exc, emsg |-> r.emsg, window_start |-> today,
     value |-> IF r.exc = "None" THEN r.self ELSE <<>>]

Window(data, today) == CallRecord(today, Loop(data, 1, today, <<>>))

get_birthdays_per_week(data, today1, today2) == Window(data, NextMonday(today1, today2))

-----------------------------------------------------------------------------
(* The command handlers.  A handler yields what is printed (pieces of text), *)
(* the exception that escapes it ("None" when none does), the address book  *)
(* it leaves and the record of the scheduler's call.  A record found in the *)
(* book is the object the method works on: what the method did to it before *)
(* raising stays in the book.                                               *)

Outcome(printed, exc, data, gb) == [printed |-> printed, exc |-> exc, data |-> data, gb |-> gb]

\* name, value = args
Unpack2(args) ==
    IF Len(args) = 2 THEN "" ELSE
    IF Len(args) > 2 THEN "too many values to unpack (expected 2)"
    ELSE IF Len(args) = 1 THEN "not enough values to unpack (expected 2, got 1)"
    ELSE "not enough values to unpack (expected 2, got 0)"

\* input_error: a ValueError becomes its text, a KeyError the fixed message,
\* anything else escapes
input_error(o) ==
    IF o.exc = "ValueError" THEN Outcome(o.printed, "None", o.data, o.gb)
    ELSE IF o.exc = "KeyError" THEN Outcome(<<"No such contact found.">>, "None", o.data, o.gb)
    ELSE o

\* add_birthday, lines 118-126
add_birthday(args, address_book) ==
    input_error(
      IF Unpack2(args) # "" THEN Outcome(<<Unpack2(args)>>, "ValueError", address_book, NoCall)
      ELSE
        LET name == args[1]
            i == find(address_book, name)
        IN  IF i = 0 THEN Outcome(<<"No such contact found">>, "None", address_book, NoCall)
            ELSE
              LET r == Record_add_birthday(address_book[i], args[2])
              IN  IF r.exc # "None"
                  THEN Outcome(<<r.emsg>>, r.exc, [address_book EXCEPT ![i] = r.self], NoCall)
                  ELSE Outcome(<<"Birthday added for ", name>>, "None",
                               [address_book EXCEPT ![i] = r.self], NoCall))

\* show_birthday, lines 128-137
show_birthday(args, address_book) ==
    input_error(
      IF Len(args) = 0
      THEN Outcome(<<"list index out of range">>, "IndexError", address_book, NoCall)
      ELSE
        LET name == args[1]
            i == find(address_book, name)
        IN  IF i = 0 THEN Outcome(<<"No such contact found.">>, "None", address_book, NoCall)
            ELSE IF ~address_book[i].birthday.isNone
            THEN Outcome(<<name, "'s birthday: ">> \o address_book[i].birthday.value,
                         "None", address_book, NoCall)
            ELSE Outcome(<<name, " doesn't have a birthday set.">>, "None", address_book,
                         NoCall))

\* lines 143-144: one line per key of the mapping, in the mapping's order
RECURSIVE OutputLines(_)
OutputLines(birthdays) ==
    IF Len(birthdays) = 0 THEN <<>>
    ELSE <<birthdays[1].key, ": ">> \o Join([k \in 1..Len(birthdays[1].names) |->
                                               <<birthdays[1].names[k]>>], <<", ">>)
         \o <<"\n">> \o OutputLines(Tail(birthdays))

\* lines 142-145 under input_error: the text returned for the scheduler's result
Output(address_book, gb) ==
    input_error(
      IF gb.exc # "None" THEN Outcome(<<gb.emsg>>, gb.exc, address_book, gb)
      ELSE Outcome(OutputLines(gb.value), "None", address_book, gb))

\* show_birthdays, lines 139-145
show_birthdays(address_book, today1, today2) ==
    Output(address_book, get_birthdays_per_week(address_book, today1, today2))

\* main, lines 159-167: the add command
main_add(args, address_book) ==
    IF Unpack2(args) # "" THEN Outcome(<<Unpack2(args)>>, "ValueError", address_book, NoCall)
    ELSE
      LET record == Record_init(args[1])
          r == Record_add_phone(record, args[2])
      IN  IF r.exc = "ValueError" THEN Outcome(<<r.emsg>>, "None", address_book, NoCall)
          ELSE Outcome(<<"Contact added.">>, "None", add_record(address_book, r.self), NoCall)

\* main, lines 168-178: the change command
main_change(args, address_book) ==
    IF Unpack2(args) # "" THEN Outcome(<<Unpack2(args)>>, "ValueError", address_book, NoCall)
    ELSE
      LET name == args[1]
          i == find(address_book, name)
      IN  IF i = 0 THEN Outcome(<<"No such contact found.">>, "None", address_book, NoCall)
          ELSE
            LET r == Record_add_phone(address_book[i], args[2])
            IN  IF r.exc = "ValueError"
                THEN Outcome(<<r.emsg>>, "None", [address_book EXCEPT ![i] = r.self], NoCall)
                ELSE Outcome(<<"Phone number updated for ", name>>, "None",
                             [address_book EXCEPT ![i] = r.self], NoCall)

\* main, lines 179-185: the phone command
main_phone(args, address_book) ==
    IF Len(args) = 0
    THEN Outcome(<<"list index out of range">>, "IndexError", address_book, NoCall)
    ELSE
      LET i == find(address_book, args[1])
      IN  IF i = 0 THEN Outcome(<<"No such contact found.">>, "None", address_book, NoCall)
          ELSE IF Len(address_book[i].phones) = 0
          THEN Outcome(<<"list index out of range">>, "IndexError", address_book, NoCall)
          ELSE Outcome(address_book[i].phones[1], "None", address_book, NoCall)

\* main, lines 186-188: the all command prints every record on its own line
RECURSIVE main_all_lines(_)
main_all_lines(data) ==
    IF Len(data) = 0 THEN <<>>
    ELSE Record_str(data[1]) \o <<"\n">> \o main_all_lines(Tail(data))

-----------------------------------------------------------------------------
(* The inputs the commands are given *)

Names == {"Alice", "Bob"}

PhoneValid == <<"0", "5", "0", "1", "2", "3", "4", "5", "6", "7">>
PhoneOther == <<"0", "6", "7", "9", "8", "7", "6", "5", "4", "3">>
PhoneShort == <<"0", "5", "0", "1", "2", "3", "4", "5", "6">>
PhoneAlpha == <<"0", "5", "0", "1", "2", "3", "4", "5", "a", "b">>

PhoneInputs == {PhoneValid, PhoneShort, PhoneAlpha}

BirthdayLeap == <<"2", "9", ".", "0", "2", ".", "2", "0", "0", "0">>
BirthdayNewYear == <<"1", ".", "1", ".", "1", "9", "8", "5">>
BirthdayDec27 == <<"2", "7", ".", "1", "2", ".", "1", "9", "9", "5">>
BirthdayDec29 == <<"2", "9", ".", "1", "2", ".", "1", "9", "9", "0">>
BirthdayDec30 == <<"3", "0", ".", "1", "2", ".", "1", "9", "9", "2">>
BirthdayNoSuchDay == <<"3", "1", ".", "0", "4", ".", "1", "9", "9", "0">>
BirthdayNotLeap == <<"2", "9", ".", "0", "2", ".", "2", "0", "0", "1">>
BirthdayIso == <<"1", "9", "9", "0", "-", "1", "2", "-", "2", "9">>

BirthdayInputs == {BirthdayLeap, BirthdayNewYear, BirthdayDec27, BirthdayDec29,
                   BirthdayDec30, BirthdayNoSuchDay, BirthdayNotLeap, BirthdayIso}

\* datetime.today().date(): NumDays consecutive days from Monday 20 December 2027,
\* across the turn of the year and 29 February 2028
FirstDay == MkDate(2027, 12, 20)

Todays == {AddDays(FirstDay, k) : k \in 0..(NumDays - 1)}

\* the two reads of the clock on line 90 fall on the same day, or the second one
\* just after midnight
ClockReads == {<<t, t>> : t \in Todays} \cup {<<t, AddDays(t, 1)>> : t \in Todays}

\* str.lower() on the spellings of the command words that are entered
Lower(w) ==
    CASE w = "ADD" -> "add"
      [] w = "Exit" -> "exit"
      [] w = "Hello" -> "hello"
      [] OTHER -> w

\* parse_input on the words of the line: cmd, *args = user_input.split()
parse_input(words) ==
    IF Len(words) = 0
    THEN [exc |-> "ValueError", cmd |-> "", args |-> <<>>]
    ELSE [exc |-> "None", cmd |-> Lower(words[1]), args |-> Tail(words)]

\* the argument lists of a command that takes a name and a value
Args2(values) ==
    {<<n, v>> : n \in Names, v \in values}
    \cup {<<n>> : n \in Names}
    \cup {<<n, v, v>> : n \in {"Bob"}, v \in {PhoneValid}}

Args1 == {<<n>> : n \in Names} \cup {<<>>}

-----------------------------------------------------------------------------
(* main(): one action per command of the loop *)

NoDay == <<NoDate, NoDate>>

\* one turn of the loop: the command's effect, and the end of the program when
\* an exception escapes
Turn(op, args, reads, o) ==
    /\ book' = o.data
    /\ cmd' = [op |-> op, args |-> args, today1 |-> reads[1], today2 |-> reads[2]]
    /\ out' = [printed |-> o.printed, exc |-> o.exc, gb |-> o.gb]
    /\ pc' = IF o.exc # "None" THEN "crashed" ELSE "printed"
    /\ UNCHANGED <<rec, recOut>>

\* a record that has room for another phone number, or no record at all
HasRoom(args) ==
    IF Len(args) = 0 THEN TRUE
    ELSE IF find(book, args[1]) = 0 THEN TRUE
    ELSE Len(book[find(book, args[1])].phones) < MaxPhones

NoCommand == [op |-> "", args |-> <<>>, today1 |-> NoDate, today2 |-> NoDate]

\* line 151: the loop comes round and input() shows its prompt
Prompt ==
    /\ pc = "printed"
    /\ pc' = "input"
    /\ cmd' = NoCommand
    /\ out' = [printed |-> <<"Enter a command: ">>, exc |-> "None", gb |-> NoCall]
    /\ UNCHANGED <<book, rec, recOut>>

CmdEmpty ==
    /\ pc = "input"
    /\ parse_input(<<>>).exc # "None"
    /\ Turn("", <<>>, NoDay,
            Outcome(<<"not enough values to unpack (expected at least 1, got 0)">>,
                    "ValueError", book, NoCall))

CmdExit ==
    /\ pc = "input"
    /\ \E w \in {"close", "exit", "Exit"} :
         LET p == parse_input(<<w>>)
         IN  /\ p.cmd \in {"close", "exit"}
             /\ book' = book
             /\ cmd' = [op |-> p.cmd, args |-> p.args, today1 |-> NoDate, today2 |-> NoDate]
             /\ out' = [printed |-> <<"Goodbye!">>, exc |-> "None", gb |-> NoCall]
             /\ pc' = "exited"
             /\ UNCHANGED <<rec, recOut>>

CmdHello ==
    /\ pc = "input"
    /\ \E w \in {"hello", "Hello"} :
         LET p == parse_input(<<w>>)
         IN  /\ p.cmd = "hello"
             /\ Turn(p.cmd, p.args, NoDay,
                     Outcome(<<"How can I help you?">>, "None", book, NoCall))

CmdAdd ==
    /\ pc = "input"
    /\ \E w \in {"add", "ADD"}, args \in Args2(PhoneInputs) :
         LET p == parse_input(<<w>> \o args)
         IN  /\ p.cmd = "add"
             /\ Turn(p.cmd, p.args, NoDay, main_add(p.args, book))

CmdChange ==
    /\ pc = "input"
    /\ \E args \in Args2(PhoneInputs) :
         LET p == parse_input(<<"change">> \o args)
         IN  /\ p.cmd = "change"
             /\ HasRoom(p.args)
             /\ Turn(p.cmd, p.args, NoDay, main_change(p.args, book))

CmdPhone ==
    /\ pc = "input"
    /\ \E args \in Args1 :
         LET p == parse_input(<<"phone">> \o args)
         IN  /\ p.cmd = "phone"
             /\ Turn(p.cmd, p.args, NoDay, main_phone(p.args, book))

CmdAll ==
    /\ pc = "input"
    /\ parse_input(<<"all">>).cmd = "all"
    /\ Turn("all", <<>>, NoDay, Outcome(main_all_lines(book), "None", book, NoCall))

CmdAddBirthday ==
    /\ pc = "input"
    /\ \E args \in Args2(BirthdayInputs) :
         LET p == parse_input(<<"add-birthday">> \o args)
         IN  /\ p.cmd = "add-birthday"
             /\ Turn(p.cmd, p.args, NoDay, add_birthday(p.args, book))

CmdShowBirthday ==
    /\ pc = "input"
    /\ \E args \in Args1 :
         LET p == parse_input(<<"show-birthday">> \o args)
         IN  /\ p.cmd = "show-birthday"
             /\ Turn(p.cmd, p.args, NoDay, show_birthday(p.args, book))

CmdBirthdays ==
    /\ pc = "input"
    /\ \E reads \in ClockReads :
         LET p == parse_input(<<"birthdays">>)
         IN  /\ p.cmd = "birthdays"
             /\ Turn(p.cmd, p.args, reads, show_birthdays(book, reads[1], reads[2]))

CmdInvalid ==
    /\ pc = "input"
    /\ \E w \in {"delete"} :
         LET p == parse_input(<<w>>)
         IN  /\ p.cmd \notin {"close", "exit", "hello", "add", "change", "phone", "all",
                              "add-birthday", "show-birthday", "birthdays"}
             /\ Turn(p.cmd, p.args, NoDay, Outcome(<<"Invalid command.">>, "None", book, NoCall))

-----------------------------------------------------------------------------
(* A Record driven through its own methods *)

RecordTexts == PhoneInputs \cup {PhoneOther}

Call(op, r) ==
    /\ rec' = r.self
    /\ recOut' = [op |-> op, exc |-> r.exc, emsg |-> r.emsg]
    /\ UNCHANGED <<book, pc, cmd, out>>

RecAddPhone ==
    /\ Len(rec.phones) < MaxPhones
    /\ \E p \in RecordTexts : Call("add_phone", Record_add_phone(rec, p))

RecRemovePhone ==
    \E p \in RecordTexts : Call("remove_phone", Record_remove_phone(rec, p))

RecEditPhone ==
    \E old \in RecordTexts, new \in RecordTexts :
        Call("edit_phone", Record_edit_phone(rec, old, new))

RecAddBirthday ==
    \E b \in BirthdayInputs : Call("add_birthday", Record_add_birthday(rec, b))

-----------------------------------------------------------------------------
(* Specifications *)

Init ==
    /\ book = <<>>
    /\ pc = "printed"
    /\ cmd = NoCommand
    /\ out = [printed |-> <<"Welcome to the assistant bot!">>, exc |-> "None", gb |-> NoCall]
    /\ rec = Record_init("Bob")
    /\ recOut = [op |-> "__init__", exc |-> "None", emsg |-> ""]

Next ==
    \/ Prompt
    \/ CmdEmpty
    \/ CmdExit
    \/ CmdHello
    \/ CmdAdd
    \/ CmdChange
    \/ CmdPhone
    \/ CmdAll
    \/ CmdAddBirthday
    \/ CmdShowBirthday
    \/ CmdBirthdays
    \/ CmdInvalid

\* the command loop of main()
Spec == Init /\ [][Next]_vars

RecordNext ==
    \/ RecAddPhone
    \/ RecRemovePhone
    \/ RecEditPhone
    \/ RecAddBirthday

\* the methods of one Record, called in any order
RecordSpec == Init /\ [][RecordNext]_vars

-----------------------------------------------------------------------------
(* Vocabulary of the properties *)

\* the state right after the birthdays command: book is the book the call read
Called == cmd.op = "birthdays" /\ out.gb.called

Returned == Called /\ out.gb.exc = "None"

\* both reads of the clock gave one date, the call's today
SameDay == cmd.today1 = cmd.today2

Buckets == out.gb.value

Keys == {Buckets[i].key : i \in 1..Len(Buckets)}

InBucket(name, key) ==
    \E i \in 1..Len(Buckets) :
        Buckets[i].key = key /\ \E k \in 1..Len(Buckets[i].names) : Buckets[i].names[k] = name

InResult(name) == \E key \in Keys : InBucket(name, key)

\* the places <<bucket, position>> at which a name occurs in the result
Places(name) ==
    {p \in UNION {{<<i, k>> : k \in 1..Len(Buckets[i].names)} : i \in 1..Len(Buckets)} :
        Buckets[p[1]].names[p[2]] = name}

HasBirthday(i) == ~book[i].birthday.isNone

MonthDay(i) == Strptime(book[i].birthday.value).value

\* the earliest date with this month and day on or after ws
NextOccurrence(md, ws) ==
    IF ToOrdinal(MkDate(ws.year, md.month, md.day)) >= ToOrdinal(ws)
    THEN MkDate(ws.year, md.month, md.day)
    ELSE MkDate(ws.year + 1, md.month, md.day)

ExistsInBothYears(md, ws) ==
    ValidYMD(ws.year, md.month, md.day) /\ ValidYMD(ws.year + 1, md.month, md.day)

\* today + ((7 - weekday_index(today)) mod 7) days
WindowStartOf(today) == FromOrdinal(ToOrdinal(today) + ((7 - Weekday(today)) % 7))

Celebrated(day) == IF StrftimeA(day) \in {"Saturday", "Sunday"} THEN "Monday" ELSE StrftimeA(day)

-----------------------------------------------------------------------------
(* Properties *)

\* C1: whenever the address book holds a contact with no birthday, the call of
\* get_birthdays_per_week raises nothing and no such contact's name is in a bucket.
C1_NoBirthdaySkipped ==
    (Called /\ \E i \in 1..Len(book) : ~HasBirthday(i))
    => /\ out.gb.exc = "None"
       /\ \A i \in 1..Len(book) : ~HasBirthday(i) => ~InResult(book[i].name)

\* C2: for every today and every contact whose birthday exists in the window
\* start's year and the next, the name is in the result exactly when the next
\* occurrence of the birthday is 0 to 6 days after the window start, and then in
\* the bucket of that day's weekday, Saturday and Sunday counted as Monday, and in
\* no other.
C2_InWindowIffBucketed ==
    (Called /\ SameDay)
    => \A i \in 1..Len(book) :
         (HasBirthday(i) /\ ExistsInBothYears(MonthDay(i), WindowStartOf(cmd.today1)))
         => LET ws == WindowStartOf(cmd.today1)
                next == NextOccurrence(MonthDay(i), ws)
                delta == ToOrdinal(next) - ToOrdinal(ws)
            IN  /\ InResult(book[i].name) <=> (delta >= 0 /\ delta <= 6)
                /\ InResult(book[i].name)
                   => \A key \in Keys : InBucket(book[i].name, key) <=> key = Celebrated(next)

\* C3 as stated: when today is a Monday the window starts at today + 7 days.
C3_MondayAnchorsNextWeek ==
    (Called /\ SameDay /\ Weekday(cmd.today1) = 0)
    => out.gb.window_start = AddDays(cmd.today1, 7)

\* C3 as amended: when today is a Monday the window starts at today itself.
C3_MondayAnchorsToday ==
    (Called /\ SameDay /\ Weekday(cmd.today1) = 0)
    => out.gb.window_start = cmd.today1

C3_Witness ==
    Called /\ SameDay /\ Weekday(cmd.today1) = 0 /\ out.gb.window_start = cmd.today1

\* C4: when every contact has a birthday that Birthday validation accepted, the
\* call of get_birthdays_per_week raises nothing.
C4_TotalOnValidBirthdays ==
    (Called /\ \A i \in 1..Len(book) : HasBirthday(i) /\ Birthday_validate(book[i].birthday.value))
    => out.gb.exc = "None"

\* C5: every key of the returned mapping is one of Monday to Friday.
C5_NoWeekendKeys ==
    Called => Keys \subseteq {"Monday", "Tuesday", "Wednesday", "Thursday", "Friday"}

\* a contact whose birthday falls on the window's Saturday or Sunday is returned
\* under Monday
C5_Witness ==
    /\ Returned
    /\ \E i \in 1..Len(book) :
         /\ HasBirthday(i)
         /\ LET next == NextOccurrence(MonthDay(i), out.gb.window_start)
            IN  /\ ToOrdinal(next) - ToOrdinal(out.gb.window_start) \in 0..6
                /\ Weekday(next) \in {5, 6}
         /\ InBucket(book[i].name, "Monday")

\* C6: a birthday stored under a name is still stored under it, unchanged, after
\* every step, and add-birthday for a contact that has one answers
\* "Birthday already exists for this contact".
C6_BirthdayNeverChanges ==
    [][ /\ \A i \in 1..Len(book) :
             HasBirthday(i)
             => /\ find(book', book[i].name) # 0
                /\ book'[find(book', book[i].name)].birthday = book[i].birthday
        /\ (/\ cmd'.op = "add-birthday"
            /\ Len(cmd'.args) = 2
            /\ find(book, cmd'.args[1]) # 0
            /\ HasBirthday(find(book, cmd'.args[1])))
           => out'.printed = <<"Birthday already exists for this contact">>
      ]_vars

\* C7: every phone of the record is ten characters long, each a digit.
C7_PhonesTenDigits ==
    \A i \in 1..Len(rec.phones) :
        /\ Len(rec.phones[i]) = 10
        /\ \A k \in 1..Len(rec.phones[i]) : rec.phones[i][k] \in
               {"0", "1", "2", "3", "4", "5", "6", "7", "8", "9"}

\* C8: a name found in the returned mapping is found at exactly one place of it
\* (one bucket, one position), and no weekday is the key of two buckets.
C8_EachNameOnce ==
    Called
    => /\ \A i \in 1..Len(Buckets) : \A k \in 1..Len(Buckets[i].names) :
              Places(Buckets[i].names[k]) = {<<i, k>>}
       /\ \A i, j \in 1..Len(Buckets) : Buckets[i].key = Buckets[j].key => i = j

\* a contact whose birthday is the window start itself is returned, under Monday
C8_Witness ==
    /\ Returned
    /\ \E i \in 1..Len(book) :
         /\ HasBirthday(i)
         /\ NextOccurrence(MonthDay(i), out.gb.window_start) = out.gb.window_start
         /\ Places(book[i].name) # {}
         /\ InBucket(book[i].name, "Monday")

\* the printed text cut into its lines, each line the pieces before a "\n"
LineEnds(text) == {i \in 1..Len(text) : text[i] = "\n"}

LineEnd(text, n) ==
    CHOOSE e \in LineEnds(text) : Cardinality({x \in LineEnds(text) : x <= e}) = n

Line(text, n) ==
    SubSeq(text, IF n = 1 THEN 1 ELSE LineEnd(text, n - 1) + 1, LineEnd(text, n) - 1)

\* C9: in each bucket the names stand in the order of the address book; the keys
\* stand in the order in which the address book first yields them; and what
\* show_birthdays returns is, key by key in that order, the line
\* "<Weekday>: name1, name2".
C9_Ordering ==
    Returned
    => /\ \A i \in 1..Len(Buckets) : \A k, l \in 1..Len(Buckets[i].names) :
              k < l => find(book, Buckets[i].names[k]) < find(book, Buckets[i].names[l])
       /\ \A i, j \in 1..Len(Buckets) :
              i < j => find(book, Buckets[i].names[1]) < find(book, Buckets[j].names[1])
       /\ Cardinality(LineEnds(out.printed)) = Len(Buckets)
       /\ Len(out.printed) = 0 \/ out.printed[Len(out.printed)] = "\n"
       /\ \A i \in 1..Len(Buckets) :
              LET line == Line(out.printed, i)
                  names == Buckets[i].names
              IN  /\ Len(line) = 2 * Len(names) + 1
                  /\ line[1] = Buckets[i].key
                  /\ line[2] = ": "
                  /\ \A k \in 1..Len(names) : line[2 * k + 1] = names[k]
                  /\ \A k \in 1..(Len(names) - 1) : line[2 * k + 2] = ", "

\* two buckets, the later weekday first because its contact was added first
C9_Witness ==
    /\ Returned
    /\ Len(Buckets) = 2
    /\ Buckets[1].key = "Wednesday"
    /\ Buckets[2].key = "Monday"
    /\ Line(out.printed, 1)[1] = "Wednesday"
    /\ Line(out.printed, 2)[1] = "Monday"

\* the four errors of the command layer, told from the command and the book it met
InvalidPhone(c, data) ==
    /\ c.op \in {"add", "change"}
    /\ Len(c.args) = 2
    /\ c.args[2] \in {PhoneShort, PhoneAlpha}
    /\ c.op = "change" => find(data, c.args[1]) # 0

InvalidDate(c, data) ==
    /\ c.op = "add-birthday"
    /\ Len(c.args) = 2
    /\ c.args[2] \in {BirthdayNoSuchDay, BirthdayNotLeap, BirthdayIso}
    /\ find(data, c.args[1]) # 0
    /\ data[find(data, c.args[1])].birthday.isNone

SecondBirthday(c, data) ==
    /\ c.op = "add-birthday"
    /\ Len(c.args) = 2
    /\ find(data, c.args[1]) # 0
    /\ ~data[find(data, c.args[1])].birthday.isNone

UnknownContact(c, data) ==
    /\ \/ c.op \in {"change", "add-birthday"} /\ Len(c.args) = 2
       \/ c.op \in {"phone", "show-birthday"} /\ Len(c.args) >= 1
    /\ find(data, c.args[1]) = 0

Reported(text) == out'.printed \in text /\ out'.exc = "None" /\ pc' = "printed" /\ book' = book

\* C10: each of the four errors is answered with its message (the unknown-contact
\* message with or without a final full stop), no exception escapes, and the
\* address book is what it was.
C10_ErrorsReported ==
    [][ /\ InvalidPhone(cmd', book) => Reported({<<"Invalid phone number format">>})
        /\ InvalidDate(cmd', book) => Reported({<<"Invalid date format">>})
        /\ SecondBirthday(cmd', book)
           => Reported({<<"Birthday already exists for this contact">>})
        /\ UnknownContact(cmd', book)
           => Reported({<<"No such contact found">>, <<"No such contact found.">>})
      ]_vars

\* a second add-birthday has just been refused
C10_Witness ==
    /\ cmd.op = "add-birthday"
    /\ out.printed = <<"Birthday already exists for this contact">>
    /\ pc = "printed"
    /\ find(book, cmd.args[1]) # 0

=============================================================================
